---- MODULE Spec2Model ----
(***************************************************************************)
(* Snowball expansion of a PMID set (extend_pmid.py): the Article          *)
(* constructor with its two retry loops, the recursive expansion           *)
(* _extend_pmid_set, the closing bibliography pass of                      *)
(* get_extended_articles and the ranking get_highest_inbound_articles.     *)
(* One step of the model is one call of the provider (fetcher) together    *)
(* with everything the code does up to the next provider call.             *)
(***************************************************************************)
EXTENDS Integers, Sequences, FiniteSets, TLC

\* ------------------------------------------------------------ bounds
MaxTopK == 4
MaxMin == 4
MaxRetries == 2
RecursionLimit == 2
MaxAttempts == 8
MaxTopN == 2

\* ------------------------------------------------- program constants
DefaultMaxRetries == 3
BaseDelay == 1
MaxDelay == 60
JitterPercent == 10

\* ------------------------------------------------------ the provider
Ids == {"A", "B", "C", "D"}

Keys == {"pubmed", "citedin", "refs"}

\* The answers of fetcher.related_pmids: a dictionary per identifier, some
\* keys possibly missing, lists possibly holding duplicates.
ScenarioNet ==
  [p \in Ids |->
     CASE p = "A" -> [pubmed |-> <<"B", "C", "D">>, citedin |-> <<"B">>, refs |-> <<"C">>]
       [] p = "B" -> [pubmed |-> <<"A">>]
       [] p = "C" -> [pubmed |-> <<>>, citedin |-> <<"A">>, refs |-> <<>>]
       [] OTHER   -> [citedin |-> <<"A", "B">>]]

RepeatNet ==
  [p \in Ids |->
     CASE p = "A" -> [pubmed |-> <<"A", "A">>, citedin |-> <<"B">>, refs |-> <<"B">>]
       [] p = "B" -> [pubmed |-> <<"A", "B">>, citedin |-> <<"A">>, refs |-> <<"A", "A">>]
       [] p = "C" -> [pubmed |-> <<"C">>, refs |-> <<"D">>]
       [] OTHER   -> [pubmed |-> <<>>, citedin |-> <<>>, refs |-> <<>>]]

ChainNet ==
  [p \in Ids |->
     CASE p = "A" -> [pubmed |-> <<"B">>, citedin |-> <<"D">>, refs |-> <<"B">>]
       [] p = "B" -> [pubmed |-> <<"C", "C", "D">>, citedin |-> <<"A">>, refs |-> <<"C">>]
       [] p = "C" -> [pubmed |-> <<"D">>, citedin |-> <<"B">>, refs |-> <<"D">>]
       [] OTHER   -> [pubmed |-> <<"A">>, citedin |-> <<"C">>, refs |-> <<"A">>]]

Nets == {"scenario", "repeat", "chain"}

related_pmids(n, p) ==
  CASE n = "scenario" -> ScenarioNet[p]
    [] n = "repeat"   -> RepeatNet[p]
    [] OTHER          -> ChainNet[p]

Seeds == {<<>>, <<"A">>, <<"A", "B", "A">>, <<"D">>}

\* ------------------------------------------------------------ helpers
Min(a, b) == IF a <= b THEN a ELSE b

Range(s) == {s[i] : i \in 1..Len(s)}

RECURSIVE Pow2(_)
Pow2(n) == IF n <= 0 THEN 1 ELSE 2 * Pow2(n - 1)

\* s[:k] for k >= 0
Take(s, k) == SubSeq(s, 1, Min(k, Len(s)))

\* related.get(key, [])
DictGet(d, key) == IF key \in DOMAIN d THEN d[key] ELSE <<>>

\* the ratio rounded down (int() in the place of ceil())
FloorRatio(min_pmid, n) == (3 * min_pmid) \div (2 * n)

\* ceil(min_pmid * 1.5 / n), n >= 1
CeilRatio(min_pmid, n) == (3 * min_pmid + 2 * n - 1) \div (2 * n)

\* the delay without its cap
BackoffNoCap(attempt) == BaseDelay * Pow2(attempt)

\* delay = min(base_delay * (2**attempt), max_delay), in seconds
BackoffDelay(attempt) == Min(BaseDelay * Pow2(attempt), MaxDelay)

\* random.uniform(0, 0.1 * delay): the two ends of the interval, in ms
Jitters(attempt) == {0, (BackoffDelay(attempt) * 1000 * JitterPercent) \div 100}

\* _exponential_backoff: delay + jitter, in ms
exponential_backoff(attempt, jitter) == BackoffDelay(attempt) * 1000 + jitter

\* an Article object with no attribute but pmid
BareArticle(p) ==
  [pmid |-> p, hasBib |-> FALSE, hasRelated |-> FALSE,
   related |-> [pubmed |-> <<>>, citedin |-> <<>>, refs |-> <<>>]]

\* self.related = {key: related.get(key, []) for key in [...]}
WithRelated(a, resp) ==
  [a EXCEPT !.hasRelated = TRUE,
            !.related = [key \in Keys |-> DictGet(resp, key)]]

WithBib(a) == [a EXCEPT !.hasBib = TRUE]

\* the log of the retry loop that ended last: its provider calls and sleeps,
\* and `total`, the provider calls made for the identifier since the loop
\* over the set picked it
NoCall == [op |-> "none", pmid |-> "none", outcome |-> "none", calls |-> 0,
           sleeps |-> <<>>, n |-> 0, err |-> <<>>, total |-> 0]

VARIABLES
  net, seed_pmids, topk0, min_articles, max_retries,   \* the call's arguments
  pc,
  pmid_set, topk, depth, todo, cur, attempt, extended_articles,
  include_bib, apc, amax, iattempt, art,
  calls, sleeps, slept, last,
  round_input, rounds, fate,
  articles, topn, ranked

args == <<net, seed_pmids, topk0, min_articles, max_retries>>
ctor == <<include_bib, apc, amax, iattempt, art>>
wrap == <<calls, sleeps, last>>
final == <<articles, topn, ranked>>
vars == <<net, seed_pmids, topk0, min_articles, max_retries, pc,
          pmid_set, topk, depth, todo, cur, attempt, extended_articles,
          include_bib, apc, amax, iattempt, art, calls, sleeps, slept, last,
          round_input, rounds, fate, articles, topn, ranked>>

\* ------------------------------------------------------ initial states
Idle ==
  /\ todo = {} /\ cur = "none" /\ attempt = 0 /\ extended_articles = <<>>
  /\ apc = "idle" /\ amax = 0 /\ iattempt = 0 /\ art = BareArticle("none")
  /\ calls = 0 /\ sleeps = <<>> /\ slept = 0 /\ last = NoCall
  /\ round_input = {} /\ rounds = <<>> /\ fate = [p \in Ids |-> "none"]
  /\ articles = <<>> /\ topn = 0 /\ ranked = <<>> /\ depth = 0

\* get_extended_articles(seed_pmids, topk, min_articles, max_retries) has
\* built set(seed_pmids) and enters _extend_pmid_set
Init ==
  /\ net \in Nets /\ seed_pmids \in Seeds
  /\ topk0 \in 1..MaxTopK /\ min_articles \in 0..MaxMin
  /\ max_retries \in 0..MaxRetries
  /\ include_bib = FALSE
  /\ pc = "round" /\ pmid_set = Range(seed_pmids) /\ topk = topk0
  /\ Idle

\* ----------------------------------------------- the Article constructor
Message(op, p) ==
  <<IF op = "bib" THEN "Failed to fetch bibliography for"
                  ELSE "Failed to fetch related articles for", p>>

LogOf(op, outcome, sl) ==
  [op |-> op, pmid |-> cur, outcome |-> outcome, calls |-> calls + 1,
   sleeps |-> sl, n |-> amax, total |-> last.total + calls + 1,
   err |-> IF outcome = "raised" THEN Message(op, cur) ELSE <<>>]

\* `if attempt == max_retries - 1: raise` of _fetch_bib
BibExhausted(a, n) == a = n - 1

\* the comparison one too far: `attempt == max_retries`
RelatedExhaustedLate(a, n) == a = n

\* `if attempt == max_retries - 1: raise` of _fetch_related
RelatedExhausted(a, n) == a = n - 1

\* `if attempt == max_retries - 1` of the loop around Article(pmid)
ArticleExhausted(a, n) == a = n - 1

\* what one provider call leaves untouched
Frame == <<net, seed_pmids, topk0, min_articles, max_retries, pmid_set, topk,
           depth, todo, round_input, rounds, topn, ranked>>

\* sleep(delay), then the next turn of `for attempt in range(max_retries)`
SleepAndRetry(delay) ==
  /\ iattempt' = iattempt + 1 /\ calls' = calls + 1
  /\ sleeps' = Append(sleeps, BackoffDelay(iattempt)) /\ slept' = delay
  /\ UNCHANGED <<pc, cur, attempt, extended_articles, include_bib, apc, amax,
                 art, last, fate, articles>>

\* _fetch_bib returned: __init__ goes on to _fetch_related
BibReturns(a, outcome, sl, sleptN) ==
  /\ apc' = "related" /\ iattempt' = 0 /\ calls' = 0 /\ sleeps' = <<>>
  /\ art' = a /\ last' = LogOf("bib", outcome, sl) /\ slept' = sleptN
  /\ UNCHANGED <<pc, cur, attempt, extended_articles, include_bib, amax,
                 fate, articles>>

\* the closing pass appends the article it was handed twice
KeepTwice(a) ==
  CASE pc = "expand" ->
         /\ extended_articles' = Append(extended_articles, a)
         /\ cur' = "none"
         /\ UNCHANGED <<pc, articles>>
    [] pc = "final" ->
         /\ articles' = Append(Append(articles, a), a)
         /\ cur' = "none"
         /\ UNCHANGED <<pc, extended_articles>>
    [] OTHER ->
         /\ pc' = "constructed"
         /\ UNCHANGED <<cur, extended_articles, articles>>

\* what the caller does with the article it was handed:
\* extended_articles.append(article); break / articles.append(article)
Keep(a) ==
  CASE pc = "expand" ->
         /\ extended_articles' = Append(extended_articles, a)
         /\ cur' = "none"
         /\ UNCHANGED <<pc, articles>>
    [] pc = "final" ->
         /\ articles' = Append(articles, a)
         /\ cur' = "none"
         /\ UNCHANGED <<pc, extended_articles>>
    [] OTHER ->
         /\ pc' = "constructed"
         /\ UNCHANGED <<cur, extended_articles, articles>>

\* _fetch_related returned, and so did __init__
CtorReturns(a, outcome, sl, sleptN) ==
  /\ apc' = "idle" /\ calls' = calls + 1 /\ sleeps' = sl
  /\ art' = a /\ last' = LogOf("related", outcome, sl) /\ slept' = sleptN
  /\ fate' = IF pc \in {"expand", "final"} /\ outcome = "ok"
               THEN [fate EXCEPT ![cur] = "ok"] ELSE fate
  /\ Keep(a)
  /\ UNCHANGED <<attempt, include_bib, amax, iattempt>>

\* giving one identifier up loses the articles gathered before it
GiveUpDropsAll ==
  /\ cur' = "none" /\ apc' = "idle" /\ calls' = calls + 1
  /\ fate' = [fate EXCEPT ![cur] = "exhausted"]
  /\ extended_articles' = <<>>
  /\ UNCHANGED <<pc, attempt, articles, include_bib, amax,
                 iattempt, art, sleeps>>

\* the loop around Article(pmid) gives the identifier up
GiveUp ==
  /\ cur' = "none" /\ apc' = "idle" /\ calls' = calls + 1
  /\ fate' = [fate EXCEPT ![cur] = "exhausted"]
  /\ UNCHANGED <<pc, attempt, extended_articles, articles, include_bib, amax,
                 iattempt, art, sleeps>>

\* the next turn of the loop around Article(pmid): a new Article(pmid)
Again ==
  /\ attempt' = attempt + 1 /\ apc' = "related" /\ iattempt' = 0
  /\ art' = BareArticle(cur) /\ calls' = 0 /\ sleeps' = <<>>
  /\ UNCHANGED <<pc, cur, extended_articles, articles, include_bib, amax,
                 fate>>

\* `except Exception` of _extend_pmid_set
ExpandHandler ==
  \E j \in Jitters(attempt) :
    LET delay == exponential_backoff(attempt, j) IN
    IF ArticleExhausted(attempt, max_retries)
      THEN GiveUp /\ slept' = 0
      ELSE /\ slept' = delay
           /\ IF attempt + 1 < max_retries THEN Again ELSE GiveUp

\* `break` in the place of `continue`: the pass ends at the first failure
SkipBreaks ==
  /\ cur' = "none" /\ apc' = "idle" /\ calls' = calls + 1 /\ slept' = 0
  /\ pc' = "returned"
  /\ fate' = [fate EXCEPT ![cur] = "exhausted"]
  /\ UNCHANGED <<attempt, extended_articles, articles, include_bib, amax,
                 iattempt, art, sleeps>>

\* `except Exception` of get_extended_articles: print, continue
SkipArticle ==
  /\ cur' = "none" /\ apc' = "idle" /\ calls' = calls + 1 /\ slept' = 0
  /\ fate' = [fate EXCEPT ![cur] = "exhausted"]
  /\ UNCHANGED <<pc, attempt, extended_articles, articles, include_bib, amax,
                 iattempt, art, sleeps>>

\* a retry loop raised, and so did __init__
CtorRaises(op) ==
  /\ last' = LogOf(op, "raised", sleeps)
  /\ CASE pc = "expand" -> ExpandHandler
       [] pc = "final"  -> SkipArticle
       [] OTHER ->
            /\ pc' = "raised" /\ apc' = "idle" /\ calls' = calls + 1
            /\ slept' = 0
            /\ UNCHANGED <<cur, attempt, extended_articles, articles,
                           include_bib, amax, iattempt, art, sleeps, fate>>

\* fetcher.article_by_pmid(self.pmid) answers
FetchBibOk ==
  /\ apc = "bib"
  /\ BibReturns(WithBib(art), "ok", sleeps, 0)
  /\ UNCHANGED Frame

\* fetcher.article_by_pmid(self.pmid) raises
FetchBibFail ==
  /\ apc = "bib"
  /\ \E j \in Jitters(iattempt) :
       LET delay == exponential_backoff(iattempt, j) IN
       IF BibExhausted(iattempt, amax) THEN CtorRaises("bib")
       ELSE IF iattempt + 1 < amax THEN SleepAndRetry(delay)
       ELSE BibReturns(art, "unfetched",
                       Append(sleeps, BackoffDelay(iattempt)), delay)
  /\ UNCHANGED Frame

\* fetcher.related_pmids(self.pmid) answers
FetchRelatedOk ==
  /\ apc = "related"
  /\ CtorReturns(WithRelated(art, related_pmids(net, cur)), "ok", sleeps, 0)
  /\ UNCHANGED Frame

\* fetcher.related_pmids(self.pmid) raises
FetchRelatedFail ==
  /\ apc = "related"
  /\ \E j \in Jitters(iattempt) :
       LET delay == exponential_backoff(iattempt, j) IN
       IF RelatedExhausted(iattempt, amax) THEN CtorRaises("related")
       ELSE IF iattempt + 1 < amax THEN SleepAndRetry(delay)
       ELSE CtorReturns(art, "unfetched",
                        Append(sleeps, BackoffDelay(iattempt)), delay)
  /\ UNCHANGED Frame

\* ------------------------------------------------------ _extend_pmid_set
\* topk = min(ceil(min_pmid * 1.5 / len(pmid_set)), topk)
EffectiveTopk(min_pmid, set, tk) == Min(CeilRatio(min_pmid, Cardinality(set)), tk)

\* the union started from an empty set
AccumulateFresh(set, arts, k) ==
  UNION {Range(Take(arts[i].related.pubmed, k)) : i \in 1..Len(arts)}

\* the union without the [:topk] cut
AccumulateAll(set, arts, k) ==
  set \cup UNION {Range(arts[i].related.pubmed) : i \in 1..Len(arts)}

\* new_pmid_set = pmid_set; for article in extended_articles:
\*     new_pmid_set |= set(article.related["pubmed"][:topk])
Accumulate(set, arts, k) ==
  set \cup UNION {Range(Take(arts[i].related.pubmed, k)) : i \in 1..Len(arts)}

\* `if len(new_pmid_set) < min_pmid and new_pmid_set:`
Recurses(new, min_pmid) == Cardinality(new) < min_pmid /\ new # {}

\* the entry of _extend_pmid_set, up to the loop over pmid_set
BeginRound ==
  /\ pc = "round"
  /\ IF pmid_set = {}
       THEN \* ZeroDivisionError, raised to the caller of get_extended_articles
            /\ pc' = "raised"
            /\ UNCHANGED <<topk, todo, extended_articles, round_input>>
       ELSE /\ pc' = "expand"
            /\ topk' = EffectiveTopk(min_articles, pmid_set, topk)
            /\ todo' = pmid_set
            /\ extended_articles' = <<>>
            /\ round_input' = pmid_set
  /\ slept' = 0 /\ fate' = [p \in Ids |-> "none"]
  /\ UNCHANGED <<args, pmid_set, depth, cur, attempt, ctor, wrap, rounds,
                 final>>

\* `for pmid in tqdm(pmid_set)`: the next identifier, in the set's order,
\* and the first Article(pmid, max_retries=max_retries) of its loop
ExpandPick ==
  /\ pc = "expand" /\ cur = "none" /\ todo # {}
  /\ \E p \in todo :
       /\ todo' = todo \ {p}
       /\ IF max_retries <= 0
            THEN \* range(max_retries) is empty
                 UNCHANGED <<cur, attempt, ctor, calls, sleeps>>
            ELSE /\ cur' = p /\ attempt' = 0
                 /\ include_bib' = FALSE /\ apc' = "related"
                 /\ amax' = max_retries /\ iattempt' = 0
                 /\ art' = BareArticle(p) /\ calls' = 0 /\ sleeps' = <<>>
  /\ slept' = 0 /\ last' = NoCall
  /\ UNCHANGED <<args, pc, pmid_set, topk, depth, extended_articles,
                 round_input, rounds, fate, final>>

\* the recursive call's error left to the caller (no try around the call)
RecursionErrorPropagates == "raised"

\* `except Exception as e: ... return new_pmid_set`: where the round goes
\* when its recursive call raised
OnRecursionError == "expanded"

\* how the round ends: `return new_pmid_set`, the recursive call, or the
\* recursive call raising (RecursionError beyond the interpreter's limit)
RoundExit(new) ==
  IF ~Recurses(new, min_articles) THEN "return"
  ELSE IF depth < RecursionLimit THEN "recurse" ELSE "caught"

\* after the loop: the union in place (new_pmid_set is pmid_set itself,
\* `|=` updates that one object), then recursion or return. `rounds` logs
\* the round that ended last; `depth` counts the rounds before it.
EndRound ==
  /\ pc = "expand" /\ cur = "none" /\ todo = {}
  /\ LET new == Accumulate(pmid_set, extended_articles, topk) IN
       /\ pmid_set' = new
       /\ rounds' = <<
            [no |-> depth, k |-> topk, input |-> round_input,
             fetched |-> {extended_articles[i].pmid : i \in 1..Len(extended_articles)},
             answered |-> {p \in Ids : fate[p] = "ok"},
             failed |-> {p \in Ids : fate[p] = "exhausted"},
             output |-> new, exit |-> RoundExit(new)]>>
       /\ CASE RoundExit(new) = "recurse" -> pc' = "round" /\ depth' = depth + 1
            [] RoundExit(new) = "return" -> pc' = "expanded" /\ UNCHANGED depth
            [] OTHER -> pc' = OnRecursionError /\ UNCHANGED depth
  /\ slept' = 0
  /\ UNCHANGED <<args, topk, todo, cur, attempt, extended_articles, ctor,
                 wrap, round_input, fate, final>>

\* ------------------------------------------------- get_extended_articles
\* _extend_pmid_set has returned extended_pmid_set: its frames are gone
\* (and with them the log of its rounds), articles = []
Expanded ==
  /\ pc = "expanded"
  /\ pc' = "final" /\ todo' = pmid_set /\ articles' = <<>>
  /\ topk' = topk0 /\ depth' = 0 /\ attempt' = 0 /\ extended_articles' = <<>>
  /\ round_input' = {} /\ rounds' = <<>> /\ last' = NoCall /\ slept' = 0
  /\ fate' = [p \in Ids |-> "none"]
  /\ UNCHANGED <<args, pmid_set, cur, ctor, calls, sleeps, topn, ranked>>

\* `for pmid in tqdm(extended_pmid_set)`: Article(pmid, include_bib=True)
FinalPick ==
  /\ pc = "final" /\ cur = "none" /\ todo # {}
  /\ \E p \in todo :
       /\ todo' = todo \ {p}
       /\ cur' = p /\ include_bib' = TRUE /\ apc' = "bib"
       /\ amax' = DefaultMaxRetries /\ iattempt' = 0
       /\ art' = BareArticle(p) /\ calls' = 0 /\ sleeps' = <<>>
  /\ slept' = 0 /\ last' = NoCall
  /\ UNCHANGED <<args, pc, pmid_set, topk, depth, attempt, extended_articles,
                 round_input, rounds, fate, final>>

\* return {"pmids": extended_pmid_set, "articles": articles}: the frame of
\* the last Article(...) call is gone
FinalEnd ==
  /\ pc = "final" /\ cur = "none" /\ todo = {}
  /\ pc' = "returned" /\ slept' = 0
  /\ include_bib' = FALSE /\ apc' = "idle" /\ amax' = 0 /\ iattempt' = 0
  /\ art' = BareArticle("none") /\ calls' = 0 /\ sleeps' = <<>>
  /\ last' = NoCall
  /\ UNCHANGED <<args, pmid_set, topk, depth, todo, cur, attempt,
                 extended_articles, round_input, rounds, fate, final>>

\* ------------------------------------------ get_highest_inbound_articles
InboundCount(pmids, a) ==
  Cardinality(pmids \cap Range(a.related.citedin))
    + Cardinality(pmids \cap Range(a.related.refs))

\* inbounds[article.pmid] = inbound_count, as the list of the dict's items
RECURSIVE DictSet(_, _, _)
DictSet(items, key, value) ==
  IF items = <<>> THEN <<<<key, value>>>>
  ELSE IF items[1][1] = key THEN <<<<key, value>>>> \o Tail(items)
  ELSE <<items[1]>> \o DictSet(Tail(items), key, value)

RECURSIVE Inbounds(_, _)
Inbounds(pmids, arts) ==
  IF arts = <<>> THEN <<>>
  ELSE LET a == arts[Len(arts)] IN
       DictSet(Inbounds(pmids, SubSeq(arts, 1, Len(arts) - 1)),
               a.pmid, InboundCount(pmids, a))

\* the sort without reverse=True
RECURSIVE InsertAscending(_, _)
InsertAscending(sorted, item) ==
  IF sorted = <<>> THEN <<item>>
  ELSE IF sorted[1][2] <= item[2]
         THEN <<sorted[1]>> \o InsertAscending(Tail(sorted), item)
         ELSE <<item>> \o sorted

\* where sorted(..., key=item[1], reverse=True) puts one more item: behind
\* every item that does not count less (the sort is stable)
RECURSIVE InsertDescending(_, _)
InsertDescending(sorted, item) ==
  IF sorted = <<>> THEN <<item>>
  ELSE IF sorted[1][2] >= item[2]
         THEN <<sorted[1]>> \o InsertDescending(Tail(sorted), item)
         ELSE <<item>> \o sorted

RECURSIVE SortedInbounds(_)
SortedInbounds(items) ==
  IF items = <<>> THEN <<>>
  ELSE InsertDescending(SortedInbounds(SubSeq(items, 1, Len(items) - 1)),
                        items[Len(items)])

\* dict(list(sorted_inbounds.items())[:topk]), its keys
TopInbounds(sorted, k) == {sorted[i][1] : i \in 1..Min(k, Len(sorted))}

\* [article for article in extended_dict["articles"] if article.pmid in top_inbounds]
RECURSIVE Filter(_, _)
Filter(arts, keys) ==
  IF arts = <<>> THEN <<>>
  ELSE (IF arts[1].pmid \in keys THEN <<arts[1]>> ELSE <<>>)
         \o Filter(Tail(arts), keys)

get_highest_inbound_articles(pmids, arts, k) ==
  Filter(arts, TopInbounds(SortedInbounds(Inbounds(pmids, arts)), k))

Rank ==
  /\ pc = "returned"
  /\ \E k \in 0..MaxTopN :
       /\ topn' = k
       /\ ranked' = get_highest_inbound_articles(pmid_set, articles, k)
  /\ pc' = "ranked" /\ slept' = 0
  /\ UNCHANGED <<args, pmid_set, topk, depth, todo, cur, attempt,
                 extended_articles, ctor, wrap, round_input, rounds, fate,
                 articles>>

Next ==
  \/ BeginRound \/ ExpandPick \/ EndRound
  \/ FetchBibOk \/ FetchBibFail \/ FetchRelatedOk \/ FetchRelatedFail
  \/ Expanded \/ FinalPick \/ FinalEnd \/ Rank

Spec == Init /\ [][Next]_vars

\* ------------------------------- Article(pmid, include_bib, max_retries)
InitRetry ==
  /\ net \in Nets /\ seed_pmids = <<>> /\ topk0 = 1 /\ min_articles = 0
  /\ max_retries \in 0..MaxAttempts
  /\ include_bib \in BOOLEAN
  /\ pc = "new" /\ pmid_set = {} /\ topk = 1
  /\ todo = {} /\ cur \in Ids /\ attempt = 0 /\ extended_articles = <<>>
  /\ apc = "idle" /\ amax = 0 /\ iattempt = 0 /\ art = BareArticle("none")
  /\ calls = 0 /\ sleeps = <<>> /\ slept = 0 /\ last = NoCall
  /\ round_input = {} /\ rounds = <<>> /\ fate = [p \in Ids |-> "none"]
  /\ articles = <<>> /\ topn = 0 /\ ranked = <<>> /\ depth = 0

\* __init__: self.pmid = pmid, then the first retry loop; with
\* max_retries <= 0 both loops are empty and __init__ returns at once
Construct ==
  /\ pc = "new"
  /\ art' = BareArticle(cur) /\ amax' = max_retries
  /\ iattempt' = 0 /\ calls' = 0 /\ sleeps' = <<>>
  /\ IF max_retries <= 0
       THEN pc' = "constructed" /\ apc' = "idle"
       ELSE pc' = "direct" /\ apc' = IF include_bib THEN "bib" ELSE "related"
  /\ slept' = 0
  /\ UNCHANGED <<args, pmid_set, topk, depth, todo, cur, attempt,
                 extended_articles, include_bib, last, round_input,
                 rounds, fate, final>>

NextRetry ==
  \/ Construct
  \/ FetchBibOk \/ FetchBibFail \/ FetchRelatedOk \/ FetchRelatedFail

SpecRetry == InitRetry /\ [][NextRetry]_vars

\* ------------------------------------------------------------- claims
PmidsOf(arts) == {arts[i].pmid : i \in 1..Len(arts)}

Inbound(a) ==
  Cardinality(pmid_set \cap Range(a.related.citedin))
    + Cardinality(pmid_set \cap Range(a.related.refs))

PlaceOf(arts, p) == CHOOSE i \in 1..Len(arts) : arts[i].pmid = p

\* C1: a round in which every identifier was fetched and the fetches gave
\* only known identifiers (the new set equals the input set) is the last
\* round: _extend_pmid_set returns that set and does not recurse again.
C1_UnchangedRoundStops ==
  \A i \in 1..Len(rounds) :
    (rounds[i].fetched = rounds[i].input /\ rounds[i].output = rounds[i].input)
      => (i = Len(rounds) /\ pc = "expanded")

\* C2: the identifier set never loses a member: every round's output holds
\* its input, every round starts from the previous round's output, and the
\* set always holds the seed identifiers.
C2_NeverShrinks ==
  /\ \A i \in 1..Len(rounds) : rounds[i].input \subseteq rounds[i].output
  /\ (pc = "expand" /\ rounds # <<>>) => rounds[1].output \subseteq round_input
  /\ pc = "expand" => round_input \subseteq pmid_set
  /\ Range(seed_pmids) \subseteq pmid_set

C2_Witness ==
  /\ pc = "expanded" /\ seed_pmids # <<>> /\ rounds # <<>> /\ depth >= 1
  /\ pmid_set # Range(seed_pmids)
  /\ \E i \in 1..Len(rounds) : rounds[i].fetched # rounds[i].input

\* C3: in every round the effective fan-out k satisfies 1 <= k <= topK.
C3_FanOutBounds ==
  pc = "expand" => (1 <= topk /\ topk <= topk0)

\* C4: a retry loop whose provider call always fails calls it exactly N
\* times, then raises a failure naming the operation and the identifier;
\* there is never an (N+1)-th call.
C4_ExactlyNAttempts ==
  /\ apc \in {"bib", "related"} => calls < amax
  /\ last.outcome \in {"none", "ok", "raised"}
  /\ last.outcome = "raised" =>
       /\ last.n >= 1 /\ last.calls = last.n
       /\ last.err = <<IF last.op = "bib"
                         THEN "Failed to fetch bibliography for"
                         ELSE "Failed to fetch related articles for", cur>>
  /\ pc = "raised" => (apc = "idle" /\ last.outcome = "raised")

C4_Witness ==
  pc = "raised" /\ last.op = "related" /\ last.n = 3 /\ last.calls = 3

\* C5: a retry loop whose provider call fails m < N times and then answers
\* returns the answer, sleeps exactly m times, and the i-th sleep's delay
\* before jitter is min(2^i, 60), i = 0..m-1: non-decreasing, at most 60.
C5_SleepsAndDelays ==
  /\ last.outcome = "ok" =>
       LET m == last.calls - 1 IN
         /\ m < last.n /\ Len(last.sleeps) = m
         /\ \A i \in 1..m :
              /\ last.sleeps[i] = (IF 2^(i - 1) < 60 THEN 2^(i - 1) ELSE 60)
              /\ i > 1 => last.sleeps[i - 1] <= last.sleeps[i]
  /\ (last.outcome = "ok" /\ last.op = "bib") => art.hasBib
  /\ (last.outcome = "ok" /\ last.op = "related") =>
       /\ art.hasRelated
       /\ art.related = [key \in Keys |-> DictGet(related_pmids(net, cur), key)]
  /\ slept # 0 =>
       /\ sleeps # <<>>
       /\ 1000 * sleeps[Len(sleeps)] <= slept
       /\ slept <= 1100 * sleeps[Len(sleeps)]

C5_Witness ==
  /\ last.outcome = "ok" /\ last.op = "related" /\ last.calls = 8
  /\ last.sleeps[6] = 32 /\ last.sleeps[7] = 60

\* C6: the ranking's result is ordered by descending inbound count, and
\* articles of equal count keep their relative order of the input list.
C6_RankedDescending ==
  pc = "ranked" =>
    \A i, j \in 1..Len(ranked) :
      i < j =>
        /\ Inbound(ranked[i]) >= Inbound(ranked[j])
        /\ Inbound(ranked[i]) = Inbound(ranked[j]) =>
             PlaceOf(articles, ranked[i].pmid) < PlaceOf(articles, ranked[j].pmid)

\* C7: the ranking returns at most topN articles, all of the input list,
\* as many as topN and the list allow, and none of them counts less than
\* an article it left out.
C7_TopN ==
  pc = "ranked" =>
    /\ Len(ranked) <= topn
    /\ Len(ranked) = Min(topn, Len(articles))
    /\ Range(ranked) \subseteq Range(articles)
    /\ \A r \in Range(ranked) : \A a \in Range(articles) \ Range(ranked) :
         Inbound(r) >= Inbound(a)

C7_Witness ==
  /\ pc = "ranked" /\ topn = 2 /\ Len(articles) >= 3 /\ Len(ranked) = 2
  /\ \E r \in Range(ranked) : \E a \in Range(articles) \ Range(ranked) :
       Inbound(r) > Inbound(a)

\* C8: in the closing pass an identifier whose fetch exhausted its retries
\* is not in the article list but stays in the identifier set, and every
\* identifier of the set was tried and is in the list if its fetches
\* succeeded.
C8_FailedSkippedOthersKept ==
  /\ \A p \in Ids : fate[p] # "none" => p \in pmid_set
  /\ pc \in {"returned", "ranked"} =>
       \A p \in pmid_set :
         /\ fate[p] # "none"
         /\ fate[p] = "exhausted" => p \notin PmidsOf(articles)
         /\ fate[p] = "ok" => p \in PmidsOf(articles)

C8_Witness ==
  /\ pc = "final" /\ todo = {} /\ cur = "none" /\ articles # <<>>
  /\ \E p \in pmid_set : fate[p] = "exhausted"
  /\ last.outcome = "ok" /\ last.op = "related"
  /\ articles[Len(articles)].pmid = last.pmid

\* C9: seed {"A"}, A's related list ["B","C","D"], topK = 2, minSize = 2
\* and A fetched: the first round's fan-out is 2, it is the only round, and
\* the expansion returns {"A","B","C"}.
ScenarioCall ==
  /\ net = "scenario" /\ seed_pmids = <<"A">>
  /\ topk0 = 2 /\ min_articles = 2

C9_Scenario ==
  /\ (ScenarioCall /\ pc = "expand" /\ depth = 0) => topk = 2
  /\ (ScenarioCall /\ rounds # <<>> /\ rounds[1].no = 0
        /\ rounds[1].fetched = {"A"}) =>
       /\ rounds[1].k = 2
       /\ pc = "expanded" /\ pmid_set = {"A", "B", "C"}

C9_Witness ==
  /\ ScenarioCall /\ pc = "expanded"
  /\ rounds # <<>> /\ rounds[1].no = 0 /\ rounds[1].fetched = {"A"}
  /\ max_retries = 1

\* C10: a round in which no identifier of the set was fetched (each one
\* exhausted its retries) is the last one: the unchanged set is returned
\* and there is no further recursive call.
C10_DeadEndStops ==
  \A i \in 1..Len(rounds) :
    (max_retries >= 1 /\ rounds[i].fetched = {}) =>
      /\ rounds[i].output = rounds[i].input
      /\ i = Len(rounds) /\ pc = "expanded"

\* C11: a round whose recursive call raised does not raise itself: it
\* returns the set it had before that call, and the expansion of a non-empty
\* seed set never ends in an error.
C11_RecursionErrorCaught ==
  /\ \A i \in 1..Len(rounds) :
       rounds[i].exit = "caught" =>
         /\ i = Len(rounds) /\ pc = "expanded"
         /\ pmid_set = rounds[i].output
  /\ seed_pmids # <<>> => pc # "raised"

C11_Witness ==
  /\ pc = "expanded" /\ seed_pmids # <<>> /\ rounds # <<>>
  /\ rounds[Len(rounds)].exit = "caught"
  /\ \E i \in 1..Len(rounds) : rounds[i].output # rounds[i].input

\* C12: with the bibliography requested, the two fetches are retried
\* independently: the construction fails only after the related-set fetch
\* has run too, also when the bibliography fetch exhausted its retries.
C12_BothFetchesRun ==
  (pc = "raised" /\ include_bib) => last.op = "related"

\* C13: a round's new set is its input set together with the first k
\* entries of the related list of every identifier whose fetch succeeded;
\* an identifier that exhausted its retries adds nothing, and every other
\* identifier of the set is still fetched.
C13_RoundUnion ==
  \A i \in 1..Len(rounds) :
    /\ rounds[i].output =
         rounds[i].input \cup
           UNION {Range(Take(DictGet(related_pmids(net, p), "pubmed"), rounds[i].k)) :
                    p \in rounds[i].answered}
    /\ rounds[i].answered \cap rounds[i].failed = {}
    /\ max_retries >= 1 =>
         rounds[i].answered \cup rounds[i].failed = rounds[i].input

C13_Witness ==
  /\ rounds # <<>>
  /\ rounds[1].failed # {} /\ rounds[1].answered # {}
  /\ rounds[1].output # rounds[1].input

\* C14: in one round the provider's related fetch is called at most
\* max_retries times for any one identifier of the set.
C14_CallsPerIdentifier ==
  pc = "expand" =>
    (IF apc = "related" THEN last.total + calls ELSE last.total) <= max_retries

\* C15: in every round, also the recursive ones that are handed the fan-out
\* of the round before, the fan-out is min(topK0, ceil(minSize * 1.5 / |S|))
\* for the topK0 of the top-level call and the set S the round starts with.
FanOutOf(set) ==
  LET n == Cardinality(set)
      c == CHOOSE c \in 0..(3 * min_articles + 1) :
             /\ 2 * n * c >= 3 * min_articles
             /\ 2 * n * (c - 1) < 3 * min_articles
  IN IF topk0 <= c THEN topk0 ELSE c

C15_FanOutAsFromTopK ==
  /\ \A i \in 1..Len(rounds) : rounds[i].k = FanOutOf(rounds[i].input)
  /\ pc = "expand" => topk = FanOutOf(round_input)

C15_Witness ==
  /\ pc = "expand" /\ rounds # <<>>
  /\ rounds[1].k < topk0
  /\ topk < rounds[1].k

\* C16: an Article handed to its caller is never half-built: whatever
\* max_retries >= 0 and whatever the provider does, the object the
\* constructor returns has its related set, and its bibliography when that
\* was requested.
C16_NeverPartial ==
  pc = "constructed" =>
    /\ art.hasRelated
    /\ include_bib => art.hasBib

\* C17: the closing pass makes at most max_retries provider calls for each
\* operation (bibliography, related set) of each identifier, max_retries
\* being the caller's argument of get_extended_articles.
C17_ClosingPassCeiling ==
  (pc = "final" /\ max_retries >= 1) =>
    /\ calls <= max_retries
    /\ last.calls <= max_retries

\* C18: the set handed to a round has the same members after the round as
\* before it. (`new_pmid_set = pmid_set` gives the caller's set object a
\* second name, so pmid_set is that object before and after the round.)
C18_InputSetUntouched ==
  \A i \in 1..Len(rounds) : pmid_set = rounds[i].input

\* C19: in the result, and while the closing pass builds it, every article
\* of the list has an identifier of the set, no two articles share an
\* identifier, and the list is no longer than the set.
C19_ArticlesWithinPmids ==
  pc \in {"final", "returned", "ranked"} =>
    /\ PmidsOf(articles) \subseteq pmid_set
    /\ \A i, j \in 1..Len(articles) :
         articles[i].pmid = articles[j].pmid => i = j
    /\ Len(articles) <= Cardinality(pmid_set)

C19_Witness ==
  /\ pc = "returned" /\ seed_pmids = <<"A", "B", "A">>
  /\ Len(articles) >= 3 /\ Len(articles) = Cardinality(pmid_set)

====
